---- MODULE Spec2Model ----
(***************************************************************************)
(* Verification model of the retrying HTTP helpers of the Siputzx client   *)
(* (src/src/Scripts/Siputzx.ts): request (JSON mode) and requestBuffer     *)
(* (binary mode).  One invocation is modelled; every action is the piece   *)
(* of the async function that runs between two awaits.  (Spec, FairSpec)   *)
(*                                                                         *)
(* The second part models one instance of the Cooldown class               *)
(* (src/unnamed/part_001) under a clock that never goes back.  (GateSpec)  *)
(* GateLiveSpec is the gate under a clock that keeps advancing and callers *)
(* that keep calling hold with the default delay.                          *)
(***************************************************************************)
EXTENDS Integers, Sequences, FiniteSets, TLC

(* ---------------------------------------------------------------- bounds *)
\* largest retryCount an invocation is given
MaxRetry == 3

\* the clock advances in multiples of ClockStep milliseconds, up to
\* MaxClock steps
ClockStep == 1000
MaxClock == 18

\* the grants of one instant are counted up to GrantCap
GrantCap == 2

(* ---------------------------------------------------------------- inputs *)
\* which of the two exported helpers is invoked
Fns == {"request", "requestBuffer"}

\* retryCount argument of the invocation
RetryCounts == (-1)..MaxRetry

\* HTTP status codes an endpoint may answer with
Statuses == {200, 404, 500, 503}

\* Content-Type header values, as character sequences; NoHeader is the
\* null that Headers.get returns for a missing header
NoHeader == <<"n", "u", "l", "l", "!">>
TextHtml == <<"t", "e", "x", "t", "/", "h", "t", "m", "l">>
ImagePng == <<"i", "m", "a", "g", "e", "/", "p", "n", "g">>
OctetStream == <<"a", "p", "p", "l", "i", "c", "a", "t", "i", "o", "n", "/",
                 "o", "c", "t", "e", "t", "-", "s", "t", "r", "e", "a", "m">>
ContentTypes == {NoHeader, TextHtml, ImagePng, OctetStream}
\* history's mark for a header the code did not read
Unread == <<"?">>

\* ids passed to hold and check
Keys == {"a", "b"}

\* response bodies an endpoint may send
Bodies == {"{\"status\":true}", "[1,2]", "<html>"}

(* ---------------------------------------------------------------- errors *)
\* Error objects; "attempt" is the loop iteration that created the object
NoError == [name |-> "none", message |-> "none", status |-> 0, attempt |-> 0]
\* rejection of fetch after controller.abort()
AbortError(a) ==
  [name |-> "AbortError", message |-> "This operation was aborted", status |-> 0, attempt |-> a]
\* rejection of fetch, or of a body read, on a transport failure
NetworkError(a) ==
  [name |-> "TypeError", message |-> "fetch failed", status |-> 0, attempt |-> a]
\* rejection of response.json() on a malformed body
SyntaxError(a) ==
  [name |-> "SyntaxError", message |-> "Unexpected token", status |-> 0, attempt |-> a]
\* new Error(`HTTP error! Status: ${response.status}, Body: ${errorText}`)
HttpError(s, a) ==
  [name |-> "Error", message |-> "HTTP error! Status", status |-> s, attempt |-> a]
\* new Error('Expected binary data but received non-binary response.')
ExpectedBinaryError(a) ==
  [name |-> "Error", message |-> "Expected binary data but received non-binary response.",
   status |-> 0, attempt |-> a]
\* new Error(`API request to ${endpoint} failed after ${retryCount} attempts.`)
ExhaustedError(a) ==
  [name |-> "Error", message |-> "API request failed after retryCount attempts.",
   status |-> 0, attempt |-> a]
\* new Error('Unknown error occurred in request retry logic.')
UnknownError(a) ==
  [name |-> "Error", message |-> "Unknown error occurred in request retry logic.",
   status |-> 0, attempt |-> a]

(* --------------------------------------------------------- pure helpers *)
\* String.prototype.includes
Includes(s, sub) ==
  \E i \in 0..(Len(s) - Len(sub)) : SubSeq(s, i + 1, i + Len(sub)) = sub

\* response.headers.get('Content-Type') || ''
HeaderOrEmpty(h) == IF h = NoHeader THEN <<>> ELSE h

\* mutant: any media type passes
IsBinaryContentType_AnySlash(ct) == Includes(ct, <<"/">>)

\* contentType.includes('application/octet-stream') || contentType.includes('image/')
IsBinaryContentType(ct) ==
  \/ Includes(ct, OctetStream)
  \/ Includes(ct, <<"i", "m", "a", "g", "e", "/">>)

\* response.ok
ResponseOk(s) == s >= 200 /\ s <= 299

\* mutant: the status test without the test on attempts left
ShouldRetryStatus_NoAttemptTest(s, a, rc) == s >= 500 /\ s < 600

\* response.status >= 500 && response.status < 600 && attempt < retryCount
ShouldRetryStatus(s, a, rc) == s >= 500 /\ s < 600 /\ a < rc

\* mutant: attempts counted from zero
IsLastAttempt_OffByOne(a, rc) == a = rc - 1

\* mutant: every caught error is rethrown at once
IsLastAttempt_Always(a, rc) == TRUE

\* const isLastAttempt = attempt === retryCount
IsLastAttempt(a, rc) == a = rc

\* const isAbort = error.name === 'AbortError'
IsAbort(e) == e.name = "AbortError"

\* the error thrown by the statement after the for loop
PostLoopError(f, a) == IF f = "request" THEN ExhaustedError(a) ELSE UnknownError(a)

(* ----------------------------------------------------------------- state *)
VARIABLES
  fn,          \* helper being run ("none" before the call)
  retryCount,  \* its retryCount argument
  pc,          \* where the async function is suspended
  attempt,     \* loop variable
  timers,      \* attempts whose setTimeout is pending
  response,    \* the Response the current attempt received
  fetches,     \* number of fetch calls issued
  outcome,     \* "pending" | "returned" | "failed"
  value,       \* what was returned
  thrown,      \* what was thrown to the caller
  history,     \* per attempt: what the transport delivered and what was raised
  log,         \* console output, in order
  constructed, \* new Cooldown(cooldown) has run
  cooldown,    \* this.cooldown
  cooldownList,\* this.cooldownList
  now,         \* Date.now()
  ret,         \* the call of hold or check just made at this instant, with its result
  heldKeys,    \* the ids passed to hold so far
  lastGrant,   \* per id, the instant of the last hold that returned {state: false}
  grantsNow    \* per id, how many holds returned {state: false} at this instant

vars == <<fn, retryCount, pc, attempt, timers, response, fetches,
          outcome, value, thrown, history, log>>

\* the setTimeout of the current attempt is pending
timerArmed == attempt \in timers

\* mutant: the timer is left pending
ClearTimeout_Forgotten(t, a) == t

\* clearTimeout(timeout), for the timer of attempt a
ClearTimeout(t, a) == t \ {a}

gvars == <<constructed, cooldown, cooldownList, now, ret, heldKeys, lastGrant, grantsNow>>

NoResponse == [status |-> 0, ctype |-> NoHeader, body |-> "none"]
NoValue == [kind |-> "none", data |-> "none"]

\* JSON.parse as response.json() applies it to the body text
IsJsonText(b) == b \in {"{\"status\":true}", "[1,2]"}
JsonParse(b) ==
  CASE b = "{\"status\":true}" -> [kind |-> "object", data |-> "status=true"]
    [] b = "[1,2]" -> [kind |-> "array", data |-> "1,2"]
    [] OTHER -> NoValue

\* Buffer.from(await response.arrayBuffer())
BufferFrom(b) == [kind |-> "buffer", data |-> b]

\* one record of history: what the transport delivered on an attempt, what
\* the code read of it, and the error the attempt raised
Entry(k, s, ct, bd, e) ==
  [kind |-> k, status |-> s, ctype |-> ct, body |-> bd, error |-> e]
SetLast(h, bd, e) == [h EXCEPT ![Len(h)].body = bd, ![Len(h)].error = e]

\* no call made at the current instant
NoRet == [op |-> "none", id |-> "none", delay |-> 0, state |-> FALSE,
          branch |-> 0, had |-> FALSE, age |-> 0]

Init ==
  /\ fn = "none"
  /\ retryCount = 0
  /\ pc = "idle"
  /\ attempt = 0
  /\ timers = {}
  /\ response = NoResponse
  /\ fetches = 0
  /\ outcome = "pending"
  /\ value = NoValue
  /\ thrown = NoError
  /\ history = <<>>
  /\ log = <<>>
  /\ constructed = FALSE
  /\ cooldown = 0
  /\ cooldownList = <<>>
  /\ now = 0
  /\ ret = NoRet
  /\ heldKeys = {}
  /\ lastGrant = {}
  /\ grantsNow = [k \in Keys |-> 0]

(* --------------------------------------------------------------- actions *)
\* mutant: the loop test is attempt < retryCount
EnterIteration_StrictTest(a, rc, f) ==
  /\ attempt' = a
  /\ response' = NoResponse
  /\ value' = value
  /\ IF a < rc
       THEN /\ pc' = "fetch"
            /\ timers' = ClearTimeout(timers, attempt) \cup {a}
            /\ fetches' = fetches + 1
            /\ outcome' = outcome
            /\ thrown' = thrown
       ELSE /\ pc' = "done"
            /\ timers' = ClearTimeout(timers, attempt)
            /\ fetches' = fetches
            /\ outcome' = "failed"
            /\ thrown' = PostLoopError(f, a)

\* One pass over the head of the for loop: the test attempt <= retryCount,
\* then new AbortController, setTimeout and the call of fetch; or, when the
\* test fails, the throw that follows the loop.  Inside the loop the head is
\* reached after the clearTimeout of the iteration that ends (continue after
\* the clearTimeout of the try, or the end of the catch block).
EnterIteration(a, rc, f) ==
  /\ attempt' = a
  /\ response' = NoResponse
  /\ value' = value
  /\ IF a <= rc
       THEN /\ pc' = "fetch"
            /\ timers' = ClearTimeout(timers, attempt) \cup {a}
            /\ fetches' = fetches + 1
            /\ outcome' = outcome
            /\ thrown' = thrown
       ELSE /\ pc' = "done"
            /\ timers' = ClearTimeout(timers, attempt)
            /\ fetches' = fetches
            /\ outcome' = "failed"
            /\ thrown' = PostLoopError(f, a)

\* mutant: the first error seen is the one kept and thrown
ThrownOnLast_First(e, h) == h[1].error

\* mutant: a new exhausted-retries error is thrown in place of the caught one
ThrownOnLast_Exhausted(e, h) == ExhaustedError(attempt)

\* throw error, in the catch block of the last attempt
ThrownOnLast(e, h) == e

\* mutant: every caught error is reported as a failure
CatchWarning_AlwaysFailed(e) == "warn:failed"

\* console.warn of the catch block
CatchWarning(e) == IF IsAbort(e) THEN "warn:timeout" ELSE "warn:failed"

\* mutant: an abort is rethrown whatever the attempt
Catch_AbortTerminal(e, h) ==
  /\ history' = SetLast(h, h[Len(h)].body, e)
  /\ IF IsAbort(e) \/ IsLastAttempt(attempt, retryCount)
       THEN /\ log' = log \o <<CatchWarning(e), "error:exhausted">>
            /\ timers' = ClearTimeout(timers, attempt)
            /\ pc' = "done"
            /\ outcome' = "failed"
            /\ thrown' = e
            /\ UNCHANGED <<attempt, response, fetches, value>>
       ELSE /\ log' = Append(log, CatchWarning(e))
            /\ EnterIteration(attempt + 1, retryCount, fn)

\* the catch block, entered with error e; h is history with this attempt's entry
Catch(e, h) ==
  /\ history' = SetLast(h, h[Len(h)].body, e)
  /\ IF IsLastAttempt(attempt, retryCount)
       THEN /\ log' = log \o <<CatchWarning(e), "error:exhausted">>
            /\ timers' = ClearTimeout(timers, attempt)
            /\ pc' = "done"
            /\ outcome' = "failed"
            /\ thrown' = ThrownOnLast(e, SetLast(h, h[Len(h)].body, e))
            /\ UNCHANGED <<attempt, response, fetches, value>>
       ELSE /\ log' = Append(log, CatchWarning(e))
            /\ EnterIteration(attempt + 1, retryCount, fn)

\* mutant: the loop variable starts at 0
Invoke_ZeroBased(f, rc) ==
  /\ pc = "idle"
  /\ fn' = f
  /\ retryCount' = rc
  /\ EnterIteration(0, rc, f)
  /\ UNCHANGED <<history, log>>

\* the call request(...) or requestBuffer(...), up to its first await
Invoke(f, rc) ==
  /\ pc = "idle"
  /\ fn' = f
  /\ retryCount' = rc
  /\ EnterIteration(1, rc, f)
  /\ UNCHANGED <<history, log>>

\* the timer fires: controller.abort() makes the pending fetch reject
TimeoutFires ==
  /\ pc = "fetch"
  /\ timerArmed
  /\ Catch(AbortError(attempt), Append(history, Entry("timeout", 0, Unread, "none", NoError)))
  /\ UNCHANGED <<fn, retryCount>>

\* fetch rejects on a transport failure
FetchRejects ==
  /\ pc = "fetch"
  /\ Catch(NetworkError(attempt), Append(history, Entry("network", 0, Unread, "none", NoError)))
  /\ UNCHANGED <<fn, retryCount>>

\* mutant: requestBuffer throws the content-type error past its catch block
FetchResolves_MismatchEscapes(s, ct, b) ==
  /\ pc = "fetch"
  /\ UNCHANGED <<fn, retryCount>>
  /\ IF ~ResponseOk(s)
       THEN IF ShouldRetryStatus(s, attempt, retryCount)
              THEN /\ log' = Append(log, "warn:retrying")
                   /\ history' = Append(history, Entry("response", s, Unread, "none", NoError))
                   /\ EnterIteration(attempt + 1, retryCount, fn)
              ELSE /\ pc' = "text"
                   /\ timers' = ClearTimeout(timers, attempt)
                   /\ response' = [status |-> s, ctype |-> ct, body |-> b]
                   /\ history' = Append(history, Entry("response", s, Unread, "none", NoError))
                   /\ UNCHANGED <<attempt, fetches, outcome, value, thrown, log>>
       ELSE IF fn = "request" \/ IsBinaryContentType(HeaderOrEmpty(ct))
              THEN /\ pc' = IF fn = "request" THEN "json" ELSE "arrayBuffer"
                   /\ timers' = ClearTimeout(timers, attempt)
                   /\ response' = [status |-> s, ctype |-> ct, body |-> b]
                   /\ history' = Append(history,
                        Entry("response", s, IF fn = "request" THEN Unread ELSE HeaderOrEmpty(ct),
                              "none", NoError))
                   /\ UNCHANGED <<attempt, fetches, outcome, value, thrown, log>>
              ELSE /\ pc' = "done"
                   /\ timers' = ClearTimeout(timers, attempt)
                   /\ outcome' = "failed"
                   /\ thrown' = ExpectedBinaryError(attempt)
                   /\ history' = Append(history,
                        Entry("response", s, HeaderOrEmpty(ct), "none", ExpectedBinaryError(attempt)))
                   /\ UNCHANGED <<attempt, response, fetches, value, log>>

\* fetch resolves with a Response: clearTimeout, then the status test and,
\* in requestBuffer, the content-type test
FetchResolves(s, ct, b) ==
  /\ pc = "fetch"
  /\ UNCHANGED <<fn, retryCount>>
  /\ IF ~ResponseOk(s)
       THEN IF ShouldRetryStatus(s, attempt, retryCount)
              THEN /\ log' = Append(log, "warn:retrying")
                   /\ history' = Append(history, Entry("response", s, Unread, "none", NoError))
                   /\ EnterIteration(attempt + 1, retryCount, fn)
              ELSE /\ pc' = "text"
                   /\ timers' = ClearTimeout(timers, attempt)
                   /\ response' = [status |-> s, ctype |-> ct, body |-> b]
                   /\ history' = Append(history, Entry("response", s, Unread, "none", NoError))
                   /\ UNCHANGED <<attempt, fetches, outcome, value, thrown, log>>
       ELSE IF fn = "request"
              THEN /\ pc' = "json"
                   /\ timers' = ClearTimeout(timers, attempt)
                   /\ response' = [status |-> s, ctype |-> ct, body |-> b]
                   /\ history' = Append(history, Entry("response", s, Unread, "none", NoError))
                   /\ UNCHANGED <<attempt, fetches, outcome, value, thrown, log>>
              ELSE IF IsBinaryContentType(HeaderOrEmpty(ct))
                     THEN /\ pc' = "arrayBuffer"
                          /\ timers' = ClearTimeout(timers, attempt)
                          /\ response' = [status |-> s, ctype |-> ct, body |-> b]
                          /\ history' = Append(history, Entry("response", s, HeaderOrEmpty(ct), "none", NoError))
                          /\ UNCHANGED <<attempt, fetches, outcome, value, thrown, log>>
                     ELSE Catch(ExpectedBinaryError(attempt),
                                Append(history, Entry("response", s, HeaderOrEmpty(ct), "none", NoError)))

\* await response.text() resolves: the HTTP error is thrown inside the try
TextResolves ==
  /\ pc = "text"
  /\ Catch(HttpError(response.status, attempt), SetLast(history, "text", NoError))
  /\ UNCHANGED <<fn, retryCount>>

\* await response.text() rejects
TextRejects ==
  /\ pc = "text"
  /\ Catch(NetworkError(attempt), SetLast(history, "unreadable", NoError))
  /\ UNCHANGED <<fn, retryCount>>

\* mutant: the decoded data is kept but the loop is not left
JsonResolves_FallsThrough ==
  /\ pc = "json"
  /\ IsJsonText(response.body)
  /\ outcome' = "returned"
  /\ value' = JsonParse(response.body)
  /\ history' = SetLast(history, "decoded", NoError)
  /\ IF attempt < retryCount
       THEN /\ pc' = "fetch"
            /\ attempt' = attempt + 1
            /\ fetches' = fetches + 1
            /\ timers' = timers \cup {attempt + 1}
       ELSE /\ pc' = "done"
            /\ UNCHANGED <<attempt, fetches, timers>>
  /\ UNCHANGED <<fn, retryCount, response, thrown, log>>

\* await response.json() resolves: return data
JsonResolves ==
  /\ pc = "json"
  /\ IsJsonText(response.body)
  /\ pc' = "done"
  /\ outcome' = "returned"
  /\ value' = JsonParse(response.body)
  /\ history' = SetLast(history, "decoded", NoError)
  /\ UNCHANGED <<fn, retryCount, attempt, timers, response, fetches, thrown, log>>

\* await response.json() rejects: malformed body, or the body cannot be read
JsonRejects(e) ==
  /\ pc = "json"
  /\ \/ e = SyntaxError(attempt) /\ ~IsJsonText(response.body)
     \/ e = NetworkError(attempt)
  /\ Catch(e, SetLast(history, IF e = SyntaxError(attempt) THEN "malformed" ELSE "unreadable", NoError))
  /\ UNCHANGED <<fn, retryCount>>

\* await response.arrayBuffer() resolves: return Buffer.from(buffer)
ArrayBufferResolves ==
  /\ pc = "arrayBuffer"
  /\ pc' = "done"
  /\ outcome' = "returned"
  /\ value' = BufferFrom(response.body)
  /\ history' = SetLast(history, "decoded", NoError)
  /\ UNCHANGED <<fn, retryCount, attempt, timers, response, fetches, thrown, log>>

\* await response.arrayBuffer() rejects
ArrayBufferRejects ==
  /\ pc = "arrayBuffer"
  /\ Catch(NetworkError(attempt), SetLast(history, "unreadable", NoError))
  /\ UNCHANGED <<fn, retryCount>>

Next ==
  \/ \E f \in Fns, rc \in RetryCounts : Invoke(f, rc) /\ UNCHANGED gvars
  \/ TimeoutFires /\ UNCHANGED gvars
  \/ FetchRejects /\ UNCHANGED gvars
  \/ \E s \in Statuses, ct \in ContentTypes, b \in Bodies :
        FetchResolves(s, ct, b) /\ UNCHANGED gvars
  \/ TextResolves /\ UNCHANGED gvars
  \/ TextRejects /\ UNCHANGED gvars
  \/ JsonResolves /\ UNCHANGED gvars
  \/ \E e \in {SyntaxError(attempt), NetworkError(attempt)} : JsonRejects(e) /\ UNCHANGED gvars
  \/ ArrayBufferResolves /\ UNCHANGED gvars
  \/ ArrayBufferRejects /\ UNCHANGED gvars

Spec == Init /\ [][Next]_vars

TypeOK ==
  /\ fn \in Fns \cup {"none"}
  /\ retryCount \in RetryCounts
  /\ pc \in {"idle", "fetch", "text", "json", "arrayBuffer", "done"}
  /\ attempt \in 0..(MaxRetry + 1)
  /\ timers \subseteq 1..MaxRetry
  /\ fetches \in 0..MaxRetry
  /\ outcome \in {"pending", "returned", "failed"}
  /\ Len(history) <= MaxRetry
  /\ Len(log) <= 2 * MaxRetry

(* ------------------------------------------------------- the Cooldown gate *)
\* cooldown argument of the constructor, in milliseconds
Cooldowns == {2000, 3000, 10000, 20000}

\* delay argument of hold; DefaultDelay when omitted
DefaultDelay == 3000
Delays == {DefaultDelay, 5000}

\* the margin check subtracts from this.cooldown
CheckDelay == 3000

\* the bound of the third test of hold and check
NearExpiryMs == 15000

\* steps by which the clock advances between calls
ClockJumps == {1, 6, 15}

\* Math.max(0, x)
Max0(x) == IF x > 0 THEN x ELSE 0

\* mutant: the first entry is taken, whatever its id
Find_First(list, id) == IF Len(list) > 0 THEN 1 ELSE 0

\* mutant: no entry is ever found
Find_NeverFinds(list, id) == 0

\* this.cooldownList.find((entry) => entry._id === id): the index of the
\* first entry with that id, 0 for undefined
Find(list, id) ==
  IF \E i \in 1..Len(list) : list[i]._id = id
    THEN CHOOSE i \in 1..Len(list) :
           list[i]._id = id /\ \A j \in 1..(i - 1) : list[j]._id # id
    ELSE 0

\* mutant: the entry is pushed without the time of the call
PushId_NoTimestamp(list, id, t) == Append(list, [_id |-> id, timer |-> 0])

\* mutant: nothing is pushed
PushId_Nothing(list, id, t) == list

\* this.cooldownList.push({ _id: id, timer: Date.now() })
PushId(list, id, t) == Append(list, [_id |-> id, timer |-> t])

\* mutant: the window lasts delay milliseconds
InStrictWindow_DelayAsWindow(age, c, d) == age < d

\* mutant: the length of the window taken as a distance
InStrictWindow_AbsWindow(age, c, d) == age < (IF c - d >= 0 THEN c - d ELSE d - c)

\* mutant: the comparison of the window test reversed
InStrictWindow_Reversed(age, c, d) == age > c - d

\* mutant: the age taken as entry.timer - Date.now()
InStrictWindow_SwappedAge(age, c, d) == 0 - age < c - d

\* mutant: the boundary instant counts as inside the window
InStrictWindow_Inclusive(age, c, d) == age <= c - d

\* Date.now() - entry.timer < this.cooldown - delay
InStrictWindow(age, c, d) == age < c - d

\* mutant: the distance to the end of the window, on either side
NearExpiry_Abs(age, c, d) ==
  (IF c - d - age >= 0 THEN c - d - age ELSE age - (c - d)) < NearExpiryMs

\* Math.max(0, this.cooldown - delay - (Date.now() - entry.timer)) < 15000
NearExpiry(age, c, d) == Max0(c - d - age) < NearExpiryMs

\* the return statement of hold that a call reaches: 1 (line 28), 2 (line 31),
\* 3 (line 35) or 4 (line 37)
HoldBranch(list, t, c, id, d) ==
  LET i == Find(list, id) IN
    IF i = 0 THEN 1
    ELSE IF InStrictWindow(t - list[i].timer, c, d) THEN 2
    ELSE IF NearExpiry(t - list[i].timer, c, d) THEN 3
    ELSE 4

\* the state field of what hold returns
HoldState(list, t, c, id, d) == HoldBranch(list, t, c, id, d) = 2

\* mutant: a throttled call restarts the window
HoldList_SlidingWindow(list, t, c, id, d) ==
  LET i == Find(list, id)
      b == HoldBranch(list, t, c, id, d) IN
    CASE b = 1 -> PushId(list, id, t)
      [] b \in {2, 3} -> [list EXCEPT ![i].timer = t]
      [] OTHER -> list

\* mutant: an expired entry is granted without entry.timer = Date.now()
HoldList_NoRefresh(list, t, c, id, d) ==
  IF HoldBranch(list, t, c, id, d) = 1 THEN PushId(list, id, t) ELSE list

\* this.cooldownList after hold
HoldList(list, t, c, id, d) ==
  LET i == Find(list, id)
      b == HoldBranch(list, t, c, id, d) IN
    CASE b = 1 -> PushId(list, id, t)
      [] b = 3 -> [list EXCEPT ![i].timer = t]
      [] OTHER -> list

\* mutant: check compares with this.cooldown, without the margin
InCheckWindow_NoMargin(age, c) == age < c

\* mutant: the window test of check reversed
InCheckWindow_Reversed(age, c) == age > c - CheckDelay

\* Date.now() - entry.timer < this.cooldown - 3000
InCheckWindow(age, c) == age < c - CheckDelay

\* the return statement of check that a call reaches: 1 (line 43), 2 (line 46),
\* 3 (line 49) or 4 (line 51)
CheckBranch(list, t, c, id) ==
  LET i == Find(list, id) IN
    IF i = 0 THEN 1
    ELSE IF InCheckWindow(t - list[i].timer, c) THEN 2
    ELSE IF Max0(c - CheckDelay - (t - list[i].timer)) < NearExpiryMs THEN 3
    ELSE 4

\* the state field of what check returns
CheckState(list, t, c, id) == CheckBranch(list, t, c, id) = 2

\* what ret records of the entry a call found
Had(list, id) == Find(list, id) # 0
AgeOf(list, t, id) == IF Find(list, id) = 0 THEN 0 ELSE t - list[Find(list, id)].timer

\* new Cooldown(c)
New(c) ==
  /\ ~constructed
  /\ constructed' = TRUE
  /\ cooldown' = c
  /\ cooldownList' = <<>>
  /\ UNCHANGED <<now, ret, heldKeys, lastGrant, grantsNow>>

\* hold(id, d)
Hold(id, d) ==
  /\ constructed
  /\ cooldownList' = HoldList(cooldownList, now, cooldown, id, d)
  /\ ret' = [op |-> "hold", id |-> id, delay |-> d,
             state |-> HoldState(cooldownList, now, cooldown, id, d),
             branch |-> HoldBranch(cooldownList, now, cooldown, id, d),
             had |-> Had(cooldownList, id), age |-> AgeOf(cooldownList, now, id)]
  /\ heldKeys' = heldKeys \cup {id}
  /\ IF HoldState(cooldownList, now, cooldown, id, d)
       THEN UNCHANGED <<lastGrant, grantsNow>>
       ELSE /\ lastGrant' = {g \in lastGrant : g[1] # id} \cup {<<id, now>>}
            /\ grantsNow' = [grantsNow EXCEPT
                               ![id] = IF @ < GrantCap THEN @ + 1 ELSE GrantCap]
  /\ UNCHANGED <<constructed, cooldown, now>>

\* mutant: check tracks an id it does not know, as hold does
Check_PushesId(id) ==
  /\ constructed
  /\ cooldownList' = IF Find(cooldownList, id) = 0
                       THEN PushId(cooldownList, id, now)
                       ELSE cooldownList
  /\ ret' = [op |-> "check", id |-> id, delay |-> CheckDelay,
             state |-> CheckState(cooldownList, now, cooldown, id),
             branch |-> CheckBranch(cooldownList, now, cooldown, id),
             had |-> Had(cooldownList, id), age |-> AgeOf(cooldownList, now, id)]
  /\ UNCHANGED <<constructed, cooldown, now, heldKeys, lastGrant, grantsNow>>

\* check(id)
Check(id) ==
  /\ constructed
  /\ ret' = [op |-> "check", id |-> id, delay |-> CheckDelay,
             state |-> CheckState(cooldownList, now, cooldown, id),
             branch |-> CheckBranch(cooldownList, now, cooldown, id),
             had |-> Had(cooldownList, id), age |-> AgeOf(cooldownList, now, id)]
  /\ UNCHANGED <<constructed, cooldown, cooldownList, now, heldKeys, lastGrant, grantsNow>>

\* time passes between two calls: Date.now() grows by n clock steps
Tick(n) ==
  /\ constructed
  /\ now + n * ClockStep <= MaxClock * ClockStep
  /\ now' = now + n * ClockStep
  /\ ret' = NoRet
  /\ grantsNow' = [k \in Keys |-> 0]
  /\ UNCHANGED <<constructed, cooldown, cooldownList, heldKeys, lastGrant>>

GateNext ==
  \/ \E c \in Cooldowns : New(c) /\ UNCHANGED vars
  \/ \E id \in Keys, d \in Delays : Hold(id, d) /\ UNCHANGED vars
  \/ \E id \in Keys : Check(id) /\ UNCHANGED vars
  \/ \E n \in ClockJumps : Tick(n) /\ UNCHANGED vars

GateSpec == Init /\ [][GateNext]_gvars

\* the gate used with hold's default delay only, by callers that keep
\* calling hold, under a clock that keeps advancing; constructed with a
\* cooldown above the delay, without which no key is ever held
LiveNext ==
  \/ \E c \in {c \in Cooldowns : c > DefaultDelay} : New(c) /\ UNCHANGED vars
  \/ \E id \in Keys : Hold(id, DefaultDelay) /\ UNCHANGED vars
  \/ \E id \in Keys : Check(id) /\ UNCHANGED vars
  \/ \E n \in ClockJumps : Tick(n) /\ UNCHANGED vars

GateLiveSpec ==
  /\ Init
  /\ [][LiveNext]_gvars
  /\ WF_gvars(\E n \in ClockJumps : Tick(n))
  /\ \A id \in Keys : WF_gvars(Hold(id, DefaultDelay))

GateTypeOK ==
  /\ constructed \in BOOLEAN
  /\ cooldown \in Cooldowns \cup {0}
  /\ now \in 0..(MaxClock * ClockStep)
  /\ \A i \in 1..Len(cooldownList) :
       cooldownList[i]._id \in Keys /\ cooldownList[i].timer \in 0..now
  /\ heldKeys \subseteq Keys
  /\ ret.op \in {"none", "hold", "check"}
  /\ lastGrant \subseteq Keys \X (0..now)
  /\ grantsNow \in [Keys -> 0..GrantCap]

(* ---------------------------------------------------------------- claims *)
Is2xx(s) == s \in 200..299
Is5xx(s) == s \in 500..599
LastEntry == history[Len(history)]
\* attempt i received a 2xx response whose Content-Type requestBuffer rejected
IsMismatch(i) ==
  /\ fn = "requestBuffer"
  /\ history[i].kind = "response"
  /\ Is2xx(history[i].status)
  /\ history[i].ctype \in {<<>>, TextHtml}
\* every attempt made so far was answered with 503
All503 == \A i \in 1..Len(history) : history[i].kind = "response" /\ history[i].status = 503

\* C1 (as claimed): a response with an unsuccessful status outside 500..599 on
\* attempt i ends the operation: no attempt after i is issued and the
\* operation fails as soon as the error body has been read.
C1_NonRetryableStatusTerminal ==
  \A i \in 1..Len(history) :
    (history[i].kind = "response" /\ ~Is2xx(history[i].status) /\ ~Is5xx(history[i].status))
      => /\ fetches = i
         /\ pc \in {"text", "done"}
         /\ (pc = "done" => outcome = "failed")

\* C2 (as claimed): when all retryCount attempts were answered with 503, the
\* operation has issued retryCount fetches and fails with the synthetic
\* exhausted-retries error that follows the loop.
C2_ExhaustedErrorThrown ==
  (retryCount >= 1 /\ pc = "done" /\ All503)
    => /\ fetches = retryCount
       /\ outcome = "failed"
       /\ thrown = PostLoopError(fn, retryCount + 1)

\* C2 (amended): when all retryCount attempts were answered with 503, exactly
\* retryCount fetches were issued and the operation fails with the error the
\* last attempt raised, the HTTP error of status 503 (the read error when the
\* error body could not be read); the exhausted-retries message is logged only.
C2_Last503ErrorThrown ==
  (retryCount >= 1 /\ pc = "done" /\ All503)
    => /\ fetches = retryCount
       /\ Len(history) = retryCount
       /\ outcome = "failed"
       /\ thrown = IF LastEntry.body = "text"
                     THEN HttpError(503, retryCount)
                     ELSE NetworkError(retryCount)
       /\ log[Len(log)] = "error:exhausted"

C2_Witness ==
  /\ retryCount = 3
  /\ pc = "done"
  /\ All503
  /\ thrown = HttpError(503, 3)

\* C3: an invocation never issues more than retryCount fetches; with
\* retryCount = 1 it has issued exactly one when it ends, and an error raised
\* by that attempt ends it in failure.
C3_AttemptsBounded ==
  /\ fetches <= Max0(retryCount)
  /\ Len(history) <= fetches
  /\ (retryCount = 1 /\ pc = "done") => fetches = 1
  /\ (retryCount = 1 /\ Len(history) = 1 /\ history[1].error # NoError)
       => (pc = "done" /\ outcome = "failed" /\ fetches = 1)

C3_Witness ==
  /\ retryCount >= 2
  /\ pc = "done"
  /\ outcome = "failed"
  /\ fetches = retryCount
  /\ \E i \in 1..Len(history) : history[i].kind = "timeout"
  /\ \E i \in 1..Len(history) : history[i].body = "malformed"

\* C4: once the operation has returned, the attempt that returned is the last
\* one issued: it got a 2xx response whose body decoded, the value returned
\* is the decoding of that body, no earlier attempt decoded a body, and no
\* fetch was issued after it.
C4_SuccessShortCircuits ==
  outcome = "returned"
    => /\ pc = "done"
       /\ fetches = Len(history)
       /\ attempt = Len(history)
       /\ attempt <= retryCount
       /\ LastEntry.kind = "response"
       /\ Is2xx(LastEntry.status)
       /\ LastEntry.body = "decoded"
       /\ \A i \in 1..(Len(history) - 1) : history[i].body # "decoded"
       /\ value # NoValue
       /\ value = IF fn = "request" THEN JsonParse(response.body) ELSE BufferFrom(response.body)
       /\ thrown = NoError

C4_Witness ==
  /\ retryCount = 3
  /\ outcome = "returned"
  /\ fetches = 2
  /\ history[1].error # NoError

\* a step in which the pending fetch of the current attempt is aborted by its timer
TimedOutStep ==
  /\ pc = "fetch"
  /\ Len(history') = Len(history) + 1
  /\ history'[Len(history')].kind = "timeout"

\* C5: an attempt aborted by its timer raises the abort error; when attempts
\* remain the next fetch is issued at once, and on the last attempt the
\* operation fails with that abort error.
C5_TimeoutCountsAsFailedAttempt ==
  [][TimedOutStep =>
       /\ history'[Len(history')].error = AbortError(attempt)
       /\ IF attempt < retryCount
            THEN /\ pc' = "fetch"
                 /\ attempt' = attempt + 1
                 /\ fetches' = fetches + 1
                 /\ timerArmed'
                 /\ outcome' = "pending"
            ELSE /\ pc' = "done"
                 /\ outcome' = "failed"
                 /\ thrown' = AbortError(attempt)
                 /\ fetches' = fetches]_vars

C5_Witness ==
  /\ pc = "done"
  /\ outcome = "failed"
  /\ Len(history) >= 2
  /\ history[1].kind = "timeout"
  /\ LastEntry.kind = "timeout"
  /\ thrown = AbortError(retryCount)

\* C6: when requestBuffer has returned, the response it returned from had a
\* 2xx status and a Content-Type of application/octet-stream or image/...,
\* and the bytes returned are that response's body.
C6_BinaryContentTypeGate ==
  (fn = "requestBuffer" /\ outcome = "returned")
    => /\ Is2xx(response.status)
       /\ response.ctype \in {ImagePng, OctetStream}
       /\ response.ctype \notin {NoHeader, TextHtml}
       /\ value = [kind |-> "buffer", data |-> response.body]

C6_Witness ==
  /\ fn = "requestBuffer"
  /\ outcome = "returned"
  /\ Len(history) >= 2
  /\ IsMismatch(1)
  /\ history[1].ctype = TextHtml

\* a step in which requestBuffer receives a 2xx response with a rejected Content-Type
MismatchStep ==
  /\ pc = "fetch"
  /\ fn = "requestBuffer"
  /\ Len(history') = Len(history) + 1
  /\ history'[Len(history')].kind = "response"
  /\ Is2xx(history'[Len(history')].status)
  /\ history'[Len(history')].ctype \in {<<>>, TextHtml}

\* C7: a content-type mismatch raises the 'Expected binary data' error; when
\* attempts remain the next fetch is issued, and on the last attempt the
\* operation fails with that error.
C7_MismatchRetriedUnlessLast ==
  [][MismatchStep =>
       /\ history'[Len(history')].error = ExpectedBinaryError(attempt)
       /\ IF attempt < retryCount
            THEN /\ pc' = "fetch"
                 /\ attempt' = attempt + 1
                 /\ fetches' = fetches + 1
                 /\ outcome' = "pending"
            ELSE /\ pc' = "done"
                 /\ outcome' = "failed"
                 /\ thrown' = ExpectedBinaryError(attempt)]_vars

C7_Witness ==
  /\ fn = "requestBuffer"
  /\ retryCount = 2
  /\ pc = "done"
  /\ IsMismatch(1)
  /\ IsMismatch(2)
  /\ thrown = ExpectedBinaryError(2)

\* C8 (as claimed): a content-type mismatch on attempt i ends requestBuffer in
\* failure on that attempt, and no attempt after i is issued.
C8_MismatchNotRetried ==
  \A i \in 1..Len(history) :
    IsMismatch(i) => (fetches = i /\ pc = "done" /\ outcome = "failed")

\* C8 (amended): a content-type mismatch is a decoding failure that ends
\* requestBuffer only on the last attempt: a mismatch on attempt i < retryCount
\* is followed by attempt i + 1, and the operation fails with the 'Expected
\* binary data' error only when that error was raised by attempt retryCount.
C8_MismatchTerminalOnlyOnLast ==
  /\ \A i \in 1..Len(history) :
       (IsMismatch(i) /\ i < retryCount) => fetches >= i + 1
  /\ \A i \in 1..Len(history) :
       (IsMismatch(i) /\ i = retryCount) => (pc = "done" /\ outcome = "failed")
  /\ (outcome = "failed" /\ thrown.message = ExpectedBinaryError(0).message)
       => (thrown.attempt = retryCount /\ IsMismatch(retryCount) /\ fetches = retryCount)

C8_Witness ==
  /\ retryCount = 3
  /\ Len(history) = 1
  /\ IsMismatch(1)
  /\ fetches = 2
  /\ pc = "fetch"

\* the error an attempt raises, read off what the transport delivered to it
ErrorOfEntry(e, i) ==
  CASE e.kind = "timeout" -> AbortError(i)
    [] e.kind = "network" -> NetworkError(i)
    [] e.body = "unreadable" -> NetworkError(i)
    [] e.body = "malformed" -> SyntaxError(i)
    [] e.body = "text" -> HttpError(e.status, i)
    [] e.ctype \in {<<>>, TextHtml} -> ExpectedBinaryError(i)
    [] OTHER -> NoError

\* C9: when an invocation with retryCount >= 1 has failed, retryCount
\* attempts were made and the error thrown is the one the last of them
\* raised; nothing was returned.
C9_FailureCarriesLastError ==
  (outcome = "failed" /\ retryCount >= 1)
    => /\ Len(history) = retryCount
       /\ fetches = retryCount
       /\ thrown # NoError
       /\ thrown = ErrorOfEntry(LastEntry, retryCount)
       /\ thrown.attempt = retryCount
       /\ value = NoValue

C9_Witness ==
  /\ outcome = "failed"
  /\ retryCount = 3
  /\ history[1].kind = "timeout"
  /\ history[2].kind = "network"
  /\ LastEntry.body = "text"
  /\ thrown = HttpError(404, 3)

\* C10 (as claimed): a run that fails on a last attempt that timed out and a
\* run that fails on a last attempt that met a network error both end with
\* an abort error.
C10_NetworkFailureEndsAsAbort ==
  (outcome = "failed" /\ retryCount >= 1 /\ LastEntry.kind \in {"timeout", "network"})
    => thrown.name = "AbortError"

\* C10 (amended): both runs fail on that last attempt, after the same number
\* of fetches and with the same exhaustion log line, but with different
\* errors: the abort error after a timeout, the network error (which is not
\* an abort error) after a network failure.
C10_TimeoutAndNetworkDiffer ==
  (outcome = "failed" /\ retryCount >= 1 /\ LastEntry.kind \in {"timeout", "network"})
    => /\ pc = "done"
       /\ fetches = retryCount
       /\ log[Len(log)] = "error:exhausted"
       /\ (LastEntry.kind = "timeout"
             => thrown.name = "AbortError" /\ log[Len(log) - 1] = "warn:timeout")
       /\ (LastEntry.kind = "network"
             => thrown.name = "TypeError" /\ log[Len(log) - 1] = "warn:failed")

C10_Witness ==
  /\ outcome = "failed"
  /\ retryCount = 2
  /\ history[1].kind = "timeout"
  /\ LastEntry.kind = "network"
  /\ thrown = NetworkError(2)

\* fetches issued and not yet settled
InFlight == fetches - Len(history)

\* C11: at most one fetch is in flight and at most one timer is pending, the
\* timer of the attempt whose fetch is in flight; no timer is pending while a
\* body is read or after the operation has returned or failed, so a pending
\* timer never belongs to an attempt that settled.
C11_TimerDisarmedOnSettlement ==
  /\ InFlight \in {0, 1}
  /\ (InFlight = 1) <=> (pc = "fetch")
  /\ Cardinality(timers) <= 1
  /\ (pc = "fetch") => (timers = {attempt} /\ attempt = Len(history) + 1)
  /\ (pc # "fetch") => timers = {}
  /\ \A t \in timers : t > Len(history)

C11_Witness ==
  /\ retryCount = 3
  /\ pc = "fetch"
  /\ attempt = 3
  /\ timers = {3}
  /\ history[1].kind = "timeout"
  /\ history[2].body = "text"

\* the scheduling the runtime guarantees: a pending timer fires
FairSpec == Spec /\ WF_vars(TimeoutFires)

\* C12 (as claimed): once called, the operation ends, returning or failing,
\* provided only that pending timers fire.
C12_AlwaysTerminates == (pc # "idle") ~> (pc = "done")

(* ------------------------------------------------- claims about the gate *)
HasRecord(k) == \E i \in 1..Len(cooldownList) : cooldownList[i]._id = k
\* the timestamp of the first record of k
Timer(k) == cooldownList[CHOOSE i \in 1..Len(cooldownList) :
                           cooldownList[i]._id = k
                           /\ \A j \in 1..(i - 1) : cooldownList[j]._id # k].timer
\* what is left of the strict window of the record a hold call found
Remaining == cooldown - ret.delay - ret.age

\* C13 (as claimed): a hold on a record whose remaining strict window
\* cooldown - delay - age lies strictly between 0 and 15000 ms returns
\* {state: false} and sets the record's timestamp to the current time.
C13_RenewInsideWindow ==
  (ret.op = "hold" /\ ret.had /\ Remaining > 0 /\ Remaining < 15000)
    => (ret.state = FALSE /\ Timer(ret.id) = now)

\* C13 (amended): the renewal happens once the strict window is over: a hold
\* on a record with age >= cooldown - delay returns {state: false} and sets
\* the timestamp to the current time, so that, when cooldown > delay, a hold
\* that follows at once returns {state: true}.  While cooldown - delay - age
\* is above 0 the record is inside the strict window: hold returns
\* {state: true} and the timestamp stays.
C13_RenewAfterWindow ==
  /\ (ret.op = "hold" /\ ret.had /\ Remaining <= 0)
       => /\ ret.state = FALSE
          /\ Timer(ret.id) = now
          /\ (cooldown > ret.delay
                => HoldState(cooldownList, now, cooldown, ret.id, ret.delay))
  /\ (ret.op = "hold" /\ ret.had /\ Remaining > 0)
       => /\ ret.state = TRUE
          /\ Timer(ret.id) = now - ret.age

C13_Witness ==
  /\ ret.op = "hold"
  /\ ret.had
  /\ cooldown = 20000
  /\ ret.delay = 3000
  /\ ret.age = 17000
  /\ ret.state = FALSE
  /\ Timer(ret.id) = now

\* C14 (as claimed): a hold on a record that is past the strict window and
\* more than 15000 ms past its end returns {state: false} and leaves the
\* record's timestamp as it was.
C14_FallThroughLeavesRecord ==
  (ret.op = "hold" /\ ret.had /\ ret.age >= cooldown - ret.delay + 15000)
    => (ret.state = FALSE /\ Timer(ret.id) = now - ret.age)

\* C14 (amended): the last return of hold is never reached: past the strict
\* window the floored remaining time is 0, below 15000, so every hold that
\* returns {state: false} for an existing record, however old, sets its
\* timestamp to the current time.
C14_FallThroughUnreachable ==
  /\ ret.branch # 4
  /\ (ret.op = "hold" /\ ret.had /\ ret.state = FALSE)
       => (ret.branch = 3 /\ Timer(ret.id) = now)
  /\ (ret.op = "hold" /\ ret.had /\ ret.age >= cooldown - ret.delay + 15000)
       => (ret.state = FALSE /\ Timer(ret.id) = now)

C14_Witness ==
  /\ ret.op = "hold"
  /\ ret.had
  /\ cooldown = 2000
  /\ ret.age >= 15000
  /\ ret.branch = 3
  /\ Timer(ret.id) = now

\* C15: with cooldown > 3000, hold(key, 3000) on a key without a record
\* returns {state: false} and creates the record with the current time, and
\* check(key) at the same instant returns {state: true}.
C15_ColdStart ==
  /\ (ret.op = "hold" /\ ~ret.had /\ ret.delay = 3000 /\ cooldown > 3000)
       => /\ ret.state = FALSE
          /\ HasRecord(ret.id)
          /\ Timer(ret.id) = now
          /\ CheckState(cooldownList, now, cooldown, ret.id)
  /\ (ret.op = "check" /\ ret.had /\ ret.age = 0 /\ cooldown > 3000)
       => ret.state = TRUE

C15_Witness ==
  /\ ret.op = "check"
  /\ ret.state = TRUE
  /\ ret.age = 0
  /\ cooldown = 10000
  /\ now > 0
  /\ Len(cooldownList) = 1

\* C16: with cooldown > delay, hold on a key without a record returns
\* {state: false}, and a second hold on the key at the same instant returns
\* {state: true}.
C16_StrictThrottle ==
  /\ (ret.op = "hold" /\ ~ret.had /\ cooldown > ret.delay)
       => /\ ret.state = FALSE
          /\ HoldState(cooldownList, now, cooldown, ret.id, ret.delay)
  /\ (ret.op = "hold" /\ ret.had /\ ret.age = 0 /\ cooldown > ret.delay)
       => ret.state = TRUE

C16_Witness ==
  /\ ret.op = "hold"
  /\ ret.had
  /\ ret.age = 0
  /\ ret.delay = DefaultDelay
  /\ cooldown = 10000
  /\ ret.state = TRUE
  /\ Len(cooldownList) = 1

\* C17: a call of check leaves the table as it was, and a record comes into
\* existence only in a call of hold on its key.
C17_CheckNeverMutates ==
  [][/\ (ret'.op = "check" => cooldownList' = cooldownList)
     /\ \A k \in Keys :
          (~HasRecord(k) /\ HasRecord(k)') => (ret'.op = "hold" /\ ret'.id = k)]_gvars

C17_Witness ==
  /\ ret.op = "check"
  /\ ~HasRecord(ret.id)
  /\ ret.state = FALSE
  /\ Len(cooldownList) = 1
  /\ now > 0

\* C18: a hold on a key whose record is inside the strict window
\* (now - timer < cooldown - delay) returns {state: true} and leaves the
\* table as it was.
C18_HoldOnHeldKeyIdempotent ==
  [][(/\ ret'.op = "hold"
      /\ HasRecord(ret'.id)
      /\ now - Timer(ret'.id) < cooldown - ret'.delay)
       => (ret'.state = TRUE /\ cooldownList' = cooldownList)]_gvars

C18_Witness ==
  /\ ret.op = "hold"
  /\ ret.state = TRUE
  /\ ret.age = 6000
  /\ cooldown = 10000
  /\ Timer(ret.id) = now - 6000

\* C19: the table holds one record per id passed to hold so far, no two
\* with the same id, and no record is ever removed.
C19_OneRecordPerKey ==
  /\ \A i, j \in 1..Len(cooldownList) :
       cooldownList[i]._id = cooldownList[j]._id => i = j
  /\ {cooldownList[i]._id : i \in 1..Len(cooldownList)} = heldKeys
  /\ Len(cooldownList) = Cardinality(heldKeys)

C19_Witness ==
  /\ Len(cooldownList) = 2
  /\ ret.op = "hold"
  /\ ret.had
  /\ ret.branch = 3
  /\ now > 0

\* C20: under a clock that never goes back, a record that check reports as
\* not throttled is reported so as long as its timestamp stays the same.
C20_ExpiredStaysExpired ==
  [][\A k \in Keys :
       (/\ HasRecord(k)
        /\ ~CheckState(cooldownList, now, cooldown, k)
        /\ HasRecord(k)'
        /\ Timer(k)' = Timer(k))
         => ~CheckState(cooldownList', now', cooldown', k)]_gvars

C20_Witness ==
  /\ ret.op = "check"
  /\ ret.had
  /\ ret.state = FALSE
  /\ cooldown = 10000
  /\ ret.age >= 13000

(* ------------------------------------- claims about logging and the loop *)
\* attempt i has ended: its fetch settled and no body read of it is pending
Settled(i) == i < Len(history) \/ pc \notin {"text", "json", "arrayBuffer"}

\* what attempt i wrote with console.warn, told from what the transport
\* delivered on it
WarningOf(i) ==
  CASE ~Settled(i) -> <<>>
    [] Settled(i) /\ history[i].kind = "timeout" -> <<"warn:timeout">>
    [] Settled(i) /\ history[i].kind = "network" -> <<"warn:failed">>
    [] Settled(i) /\ history[i].kind = "response" /\ history[i].body = "decoded" -> <<>>
    [] Settled(i) /\ history[i].kind = "response" /\ history[i].body = "none"
         /\ Is5xx(history[i].status) /\ i < retryCount -> <<"warn:retrying">>
    [] OTHER -> <<"warn:failed">>

RECURSIVE WarningsUpTo(_)
WarningsUpTo(n) == IF n = 0 THEN <<>> ELSE WarningsUpTo(n - 1) \o WarningOf(n)

\* C21: the console output is determined by the attempts made: in attempt
\* order, one warning for each attempt that ended without success (the retry
\* notice for a retried 5xx, the timeout notice for an abort, the failure
\* notice otherwise), nothing for a successful or unfinished attempt, and one
\* closing error exactly when the operation failed on its last attempt.
C21_LogFollowsAttempts ==
  /\ log = WarningsUpTo(Len(history))
             \o (IF outcome = "failed" /\ retryCount >= 1
                   THEN <<"error:exhausted">> ELSE <<>>)
  /\ outcome = "returned" => \A i \in 1..Len(log) : log[i] # "error:exhausted"

C21_Witness ==
  /\ retryCount = 3
  /\ outcome = "failed"
  /\ Len(history) = 3
  /\ history[1].kind = "response" /\ history[1].status = 503
  /\ history[2].kind = "timeout"
  /\ history[3].kind = "response" /\ history[3].status = 404
  /\ log = <<"warn:retrying", "warn:timeout", "warn:failed", "error:exhausted">>

\* the outcome of attempt i, in the terms the two helpers share
AttemptOutcome(i) ==
  CASE ~Settled(i) -> "pending"
    [] Settled(i) /\ history[i].kind = "timeout" -> "timeout"
    [] Settled(i) /\ history[i].kind = "network" -> "network"
    [] Settled(i) /\ history[i].kind = "response" /\ ~Is2xx(history[i].status)
         /\ history[i].body = "none" -> "retried status"
    [] Settled(i) /\ history[i].kind = "response" /\ ~Is2xx(history[i].status)
         /\ history[i].body # "none" -> "error status"
    [] Settled(i) /\ history[i].kind = "response" /\ Is2xx(history[i].status)
         /\ history[i].body = "decoded" -> "decoded"
    [] OTHER -> "undecodable"

\* C29: request and requestBuffer run one retry machine: whichever helper is
\* invoked, the number of fetches issued and the way the operation ends are a
\* function of retryCount and of the attempts' outcomes alone: a decoded
\* attempt returns on that attempt, any other outcome on attempt retryCount
\* fails on that attempt with that attempt's error, any other outcome before
\* it issues the next attempt, and a status is retried without reading the
\* body only when it is 5xx and attempts are left.
C29_SameRetryMachine ==
  LET n == Len(history) IN
    (retryCount >= 1 /\ n >= 1) =>
      /\ \A i \in 1..(n - 1) : AttemptOutcome(i) \notin {"decoded", "pending"}
      /\ \A i \in 1..n : AttemptOutcome(i) = "retried status"
                           => (Is5xx(history[i].status) /\ i < retryCount)
      /\ CASE AttemptOutcome(n) = "pending" ->
                fetches = n /\ outcome = "pending"
           [] AttemptOutcome(n) = "decoded" ->
                fetches = n /\ pc = "done" /\ outcome = "returned"
           [] AttemptOutcome(n) \notin {"pending", "decoded"} /\ n = retryCount ->
                /\ fetches = n /\ pc = "done" /\ outcome = "failed"
                /\ thrown.attempt = n
                /\ thrown = history[n].error
           [] OTHER ->
                fetches = n + 1 /\ pc = "fetch" /\ outcome = "pending"

C29_Witness ==
  /\ fn = "requestBuffer"
  /\ retryCount = 2
  /\ Len(history) = 2
  /\ IsMismatch(1)
  /\ history[1].error = ExpectedBinaryError(1)
  /\ history[2].kind = "response" /\ history[2].body = "decoded"
  /\ fetches = 2
  /\ outcome = "returned"

\* C30: the throw after the loop is reached exactly when no attempt is
\* made: with retryCount <= 0 the call issues no fetch, arms no timer, logs
\* nothing and fails with the post-loop error; with retryCount >= 1 every
\* failure is the rethrow of the error caught on attempt retryCount, after
\* retryCount fetches, and is never the post-loop error.
C30_PostLoopOnlyWithoutAttempts ==
  /\ (retryCount <= 0 /\ pc # "idle") =>
        /\ pc = "done" /\ outcome = "failed"
        /\ fetches = 0 /\ timers = {} /\ history = <<>> /\ log = <<>>
        /\ thrown = PostLoopError(fn, 1)
  /\ (retryCount >= 1 /\ outcome = "failed") =>
        /\ fetches = retryCount /\ Len(history) = retryCount
        /\ thrown.attempt = retryCount
        /\ thrown = LastEntry.error
        /\ thrown.message \notin {ExhaustedError(0).message, UnknownError(0).message}
        /\ log[Len(log)] = "error:exhausted"

C30_Witness ==
  /\ fn = "requestBuffer"
  /\ retryCount = -1
  /\ pc = "done"
  /\ outcome = "failed"
  /\ fetches = 0
  /\ thrown = UnknownError(1)

(* ------------------------------------- claims about grants and callers *)
\* the records of k in list, in order
RecordsOf(list, k) == SelectSeq(list, LAMBDA e : e._id = k)

\* C22: every grant refreshes the record: after a hold that returned
\* {state: false}, on a fresh key or on an expired one, every record of the
\* key carries the time of that call, and the call is the key's last grant;
\* no hold returns {state: false} through the branch that leaves the record
\* as it was.
C22_GrantRefreshes ==
  (ret.op = "hold" /\ ~ret.state)
    => /\ HasRecord(ret.id)
       /\ RecordsOf(cooldownList, ret.id) = <<[_id |-> ret.id, timer |-> now]>>
       /\ ret.branch \in {1, 3}
       /\ <<ret.id, now>> \in lastGrant

C22_Witness ==
  /\ ret.op = "hold"
  /\ ~ret.state
  /\ ret.had
  /\ cooldown = 10000
  /\ ret.delay = 5000
  /\ ret.age >= 5000
  /\ HasRecord(ret.id)
  /\ Timer(ret.id) = now

\* C23: two holds on one key that both return {state: false} are at least
\* cooldown - delay apart, delay being that of the later call: a hold that
\* returns {state: false} for a key granted before comes no sooner than
\* cooldown - delay after the key's previous grant, whatever calls of hold
\* and check were made in between.
C23_MinimumSpacing ==
  [][(ret'.op = "hold" /\ ~ret'.state)
       => \A g \in lastGrant :
            g[1] = ret'.id => now' - g[2] >= cooldown - ret'.delay]_gvars

C23_Witness ==
  /\ ret.op = "hold"
  /\ ~ret.state
  /\ ret.had
  /\ cooldown > ret.delay
  /\ ret.age = cooldown - ret.delay
  /\ <<ret.id, now>> \in lastGrant

\* C24: hold with the default delay returns the state check returns on the
\* table as it was before the call, for every table, key and instant reached.
\* (With another delay the two differ: the witness is a hold with delay 5000
\* that grants and refreshes a key check reported as throttled.)
C24_DefaultHoldAgreesWithCheck ==
  [][/\ \A k \in Keys :
          HoldState(cooldownList, now, cooldown, k, DefaultDelay)
            = CheckState(cooldownList, now, cooldown, k)
     /\ (ret'.op = "hold" /\ ret'.delay = DefaultDelay)
          => ret'.state = CheckState(cooldownList, now, cooldown, ret'.id)]_gvars

C24_Witness ==
  /\ ret.op = "hold"
  /\ ret.delay # DefaultDelay
  /\ ~ret.state
  /\ ret.had
  /\ ret.age < cooldown - CheckDelay
  /\ HasRecord(ret.id)
  /\ Timer(ret.id) = now

\* C26: with cooldown <= delay hold never throttles, and with
\* cooldown <= 3000 check never throttles: every such call made returns
\* {state: false}, and so would every such call in any state reached.
C26_NoThrottleWithinDelay ==
  constructed =>
    /\ (ret.op = "hold" /\ cooldown <= ret.delay) => ~ret.state
    /\ (ret.op = "check" /\ cooldown <= CheckDelay) => ~ret.state
    /\ \A k \in Keys :
         /\ \A d \in Delays :
              cooldown <= d => ~HoldState(cooldownList, now, cooldown, k, d)
         /\ cooldown <= CheckDelay => ~CheckState(cooldownList, now, cooldown, k)

C26_Witness ==
  /\ cooldown = 3000
  /\ ret.op = "hold"
  /\ ret.delay = 3000
  /\ ret.had
  /\ ret.age = 0
  /\ ~ret.state
  /\ grantsNow[ret.id] = GrantCap

\* C27: hold(k, delay) leaves every other key j alone: j's records are the
\* same before and after the call, and so is what check(j) and hold(j, d)
\* return at that instant.
C27_PerKeyIsolation ==
  [][ret'.op = "hold"
       => \A j \in Keys \ {ret'.id} :
            /\ RecordsOf(cooldownList', j) = RecordsOf(cooldownList, j)
            /\ CheckBranch(cooldownList', now', cooldown', j)
                 = CheckBranch(cooldownList, now, cooldown, j)
            /\ \A d \in Delays :
                 HoldBranch(cooldownList', now', cooldown', j, d)
                   = HoldBranch(cooldownList, now, cooldown, j, d)]_gvars

C27_Witness ==
  /\ ret.op = "hold"
  /\ ~ret.state
  /\ ret.had
  /\ ret.age > 0
  /\ \E j \in Keys \ {ret.id} :
       /\ HasRecord(j)
       /\ Timer(j) < now
       /\ CheckState(cooldownList, now, cooldown, j)

\* C28: of the holds made on one key at one instant, in whatever order,
\* exactly one returns {state: false} when the key was free and none when
\* it was held (cooldown > delay): a call made after a grant of that instant
\* is throttled, the first call on a free key is granted, a call on a held
\* key is throttled, and so no instant sees two grants of one key.
C28_OneGrantPerInstant ==
  [][(ret'.op = "hold" /\ cooldown > ret'.delay)
       => LET k == ret'.id
              free == \/ ~HasRecord(k)
                      \/ HasRecord(k) /\ now - Timer(k) >= cooldown - ret'.delay
          IN /\ grantsNow[k] >= 1 => (ret'.state /\ grantsNow'[k] = grantsNow[k])
             /\ (grantsNow[k] = 0 /\ free) => (~ret'.state /\ grantsNow'[k] = 1)
             /\ (grantsNow[k] = 0 /\ ~free) => (ret'.state /\ grantsNow'[k] = 0)
             /\ (\A d \in Delays : cooldown > d) => grantsNow'[k] <= 1]_gvars

C28_Witness ==
  /\ ret.op = "hold"
  /\ ret.state
  /\ ret.age = 0
  /\ now > 0
  /\ cooldown > ret.delay
  /\ grantsNow[ret.id] = 1
  /\ \E j \in Keys \ {ret.id} : grantsNow[j] = 1

(* ------------------------------------------------ claims about liveness *)
\* k is throttled for callers of hold(k): its record is inside the window
Held(k) == HasRecord(k) /\ InStrictWindow(now - Timer(k), cooldown, DefaultDelay)
\* the window of k's record ends at an instant the clock reaches
ExpiryInRange(k) ==
  HasRecord(k) /\ Timer(k) + cooldown - DefaultDelay <= MaxClock * ClockStep

\* C25: a throttled caller is not starved: while the clock keeps advancing
\* and hold(k) keeps being called, a held key k becomes free, whatever calls
\* of hold and check are made on it meanwhile, and a hold(k) then returns
\* {state: false}: some later call of hold(k) finds the record with its window
\* over (age >= cooldown - delay) and is granted.
C25_HeldEventuallyFree ==
  \A k \in Keys :
    (Held(k) /\ ExpiryInRange(k))
      ~> (ret.op = "hold" /\ ret.id = k /\ ~ret.state /\ ret.had
          /\ ret.age >= cooldown - DefaultDelay)

C25_Witness ==
  /\ ret.op = "hold"
  /\ ret.delay = DefaultDelay
  /\ ~ret.state
  /\ ret.had
  /\ cooldown > DefaultDelay
  /\ ret.age > cooldown - DefaultDelay
  /\ now >= 2 * (cooldown - DefaultDelay)
  /\ \E j \in Keys \ {ret.id} : Held(j)

====
